---- MODULE Spec2Model ----
(***************************************************************************)
(* Model of the page-metadata service: the rule catalog and the rule-set   *)
(* evaluator of the metadata parser (src/unnamed/part_000, second variant, *)
(* lines 279-545) and the HTTP shell that calls it (src/main.js).          *)
(*                                                                         *)
(* JavaScript values are records tagged by t:                              *)
(*   undefined, null                                                       *)
(*   text    a string, run-length encoded: runs = <<[c |-> char, n |-> k]>>*)
(*   url     a string that holds a URL reference, kept in parsed form      *)
(*   words   a string made of host labels joined by single spaces          *)
(*   array   an array of strings                                           *)
(*   number, digits   a score: a number, or a string of decimal digits     *)
(***************************************************************************)
EXTENDS Integers, Sequences, FiniteSets, TLC

VARIABLES
  pc,         \* position of the fetch handler of main.js for the current event
  request,    \* query parameters of the current event: url, browser, excerpt
  apiKey,     \* whether SA_API_KEY is set in the environment
  context,    \* context of the current parse / evaluation: [url |-> ...]
  keyIdx,     \* number of catalog keys parse has evaluated so far
  metadata,   \* the object parse is filling in
  doc,        \* per evaluated key, the elements the document gave its selectors
  err,        \* the error caught by the handler (its message), or "none"
  responses,  \* the responses handed to event.respondWith for the current event
  fetched,    \* whether the handler has issued a fetch for the current event
  call,       \* the last rule-set evaluation: its key and matched elements
  ret         \* what that evaluation produced

vars == <<pc, request, apiKey, context, keyIdx, metadata, doc, err, responses,
          fetched, call, ret>>

----------------------------------------------------------------------------
(* Bounds of the model *)

\* most elements a document offers to the selectors of one rule-set
MaxElems == 2
\* most runs of equal characters in a text node
MaxRuns == 2
\* most digits in one number of a sizes attribute
MaxDigits == 2

----------------------------------------------------------------------------
(* JavaScript values *)

Undefined == [t |-> "undefined"]
Null == [t |-> "null"]
Text(runs) == [t |-> "text", runs |-> runs]
EmptyString == Text(<<>>)
Words(w) == [t |-> "words", w |-> w]
Array(items) == [t |-> "array", items |-> items]
Number(n) == [t |-> "number", n |-> n]
Digits(s) == [t |-> "digits", s |-> s]

\* ToBoolean: undefined, null and the empty string are falsy
Truthy(v) ==
  CASE v.t = "text" -> v.runs # <<>>
    [] v.t = "words" -> v.w # <<>>
    [] v.t = "url" -> TRUE
    [] v.t = "array" -> TRUE
    [] v.t = "digits" -> v.s # <<>>
    [] v.t = "number" -> v.n # 0
    [] OTHER -> FALSE

----------------------------------------------------------------------------
(* Strings as runs of characters *)

SP == " "
NL == "\n"
TAB == "\t"
\* what String.prototype.trim removes (of the characters modelled)
TrimSet == {SP, NL, TAB}

RECURSIVE RunsLen(_)
RunsLen(runs) == IF runs = <<>> THEN 0 ELSE Head(runs).n + RunsLen(Tail(runs))

\* append a run, merging it with an equal last run
AddRun(runs, c, n) ==
  IF n = 0 THEN runs
  ELSE IF runs # <<>> /\ runs[Len(runs)].c = c
       THEN [runs EXCEPT ![Len(runs)].n = @ + n]
       ELSE Append(runs, [c |-> c, n |-> n])

\* character at 1-based position i
RECURSIVE CharAt(_, _)
CharAt(runs, i) ==
  IF i <= Head(runs).n THEN Head(runs).c ELSE CharAt(Tail(runs), i - Head(runs).n)

\* String.prototype.slice(0, k)
RECURSIVE SliceRuns(_, _)
SliceRuns(runs, k) ==
  IF runs = <<>> \/ k <= 0 THEN <<>>
  ELSE IF Head(runs).n >= k THEN <<[c |-> Head(runs).c, n |-> k]>>
       ELSE <<Head(runs)>> \o SliceRuns(Tail(runs), k - Head(runs).n)

RECURSIVE TrimStartRuns(_)
TrimStartRuns(runs) ==
  IF runs # <<>> /\ Head(runs).c \in TrimSet THEN TrimStartRuns(Tail(runs)) ELSE runs

RECURSIVE TrimEndRuns(_)
TrimEndRuns(runs) ==
  IF runs # <<>> /\ runs[Len(runs)].c \in TrimSet
  THEN TrimEndRuns(SubSeq(runs, 1, Len(runs) - 1))
  ELSE runs

\* String.prototype.trim
TrimRuns(runs) == TrimEndRuns(TrimStartRuns(runs))

\* text.replace(/[\n ]+/g, " ")
RECURSIVE CollapseFrom(_, _, _)
CollapseFrom(runs, acc, inWs) ==
  IF runs = <<>> THEN acc
  ELSE IF Head(runs).c \in {NL, SP}
       THEN CollapseFrom(Tail(runs), IF inWs THEN acc ELSE AddRun(acc, SP, 1), TRUE)
       ELSE CollapseFrom(Tail(runs), AddRun(acc, Head(runs).c, Head(runs).n), FALSE)

CollapseWhitespace(runs) == CollapseFrom(runs, <<>>, FALSE)

\* str.split(sep) for a one-character separator: the pieces, as runs
RECURSIVE SplitFrom(_, _, _, _)
SplitFrom(runs, sep, done, cur) ==
  IF runs = <<>> THEN Append(done, cur)
  ELSE IF Head(runs).c = sep
       THEN SplitFrom(Tail(runs), sep,
                      Append(done, cur) \o [i \in 1..(Head(runs).n - 1) |-> <<>>],
                      <<>>)
       ELSE SplitFrom(Tail(runs), sep, done, AddRun(cur, Head(runs).c, Head(runs).n))

SplitRuns(runs, sep) == SplitFrom(runs, sep, <<>>, <<>>)

----------------------------------------------------------------------------
(* URLs.  A string holding a URL reference is kept as the pieces the URL   *)
(* parser reads from it:                                                   *)
(*   form "abs"   scheme://host/path      form "root"  /path               *)
(*   form "rel"   path                    form "bad"   does not parse      *)
(* host is the sequence of the host's labels; path is the sequence of the  *)
(* segments between slashes ("/a/" is <<"a", "">>).  Host labels are whole *)
(* words: either a label of the shape www[a-z0-9]* or a label without www. *)

UrlRef(form, scheme, host, path) ==
  [t |-> "url", form |-> form, scheme |-> scheme, host |-> host, path |-> path]

\* the URL parser's path state for http(s): ".." drops a segment, "." none,
\* and either as the last segment leaves a trailing slash
RECURSIVE PathState(_, _)
PathState(path, segs) ==
  IF segs = <<>> THEN path
  ELSE LET s == Head(segs)
           last == Len(segs) = 1
           shortened == IF path = <<>> THEN path ELSE SubSeq(path, 1, Len(path) - 1)
       IN CASE s = ".." ->
                 PathState(IF last THEN Append(shortened, "") ELSE shortened, Tail(segs))
            [] s = "." ->
                 PathState(IF last THEN Append(path, "") ELSE path, Tail(segs))
            [] OTHER -> PathState(Append(path, s), Tail(segs))

\* new URL(relative, base): [ok |-> FALSE] stands for the TypeError it throws
NewUrl(relative, base) ==
  IF base.t # "url" \/ base.form # "abs" THEN [ok |-> FALSE, url |-> Undefined]
  ELSE LET basePath == PathState(<<>>, base.path)
       IN CASE relative.t # "url" ->
                 [ok |-> TRUE, url |-> UrlRef("abs", base.scheme, base.host, basePath)]
            [] relative.form = "abs" ->
                 [ok |-> TRUE,
                  url |-> UrlRef("abs", relative.scheme, relative.host,
                                 PathState(<<>>, relative.path))]
            [] relative.form = "root" ->
                 [ok |-> TRUE,
                  url |-> UrlRef("abs", base.scheme, base.host,
                                 PathState(<<>>, relative.path))]
            [] relative.form = "rel" ->
                 [ok |-> TRUE,
                  url |-> UrlRef("abs", base.scheme, base.host,
                                 PathState(SubSeq(basePath, 1, Len(basePath) - 1),
                                           relative.path))]
            [] OTHER -> [ok |-> FALSE, url |-> Undefined]

\* a variant that hands the reference back unresolved
makeUrlAbsoluteUnresolved(base, relative) == [ok |-> TRUE, url |-> relative]

\* makeUrlAbsolute(base, relative) == new URL(relative, base).href
makeUrlAbsolute(base, relative) == NewUrl(relative, base)

\* parseUrl(url) == new URL(url).host
parseUrl(url) ==
  IF url.t = "url" /\ url.form = "abs"
  THEN [ok |-> TRUE, host |-> url.host]
  ELSE [ok |-> FALSE, host |-> <<>>]

WwwLabels == {"www", "www2"}

\* host.replace(/www[a-zA-Z0-9]*\./, ""): the first www-label that a dot follows
StripWww(host) ==
  LET hits == {i \in 1..(Len(host) - 1) : host[i] \in WwwLabels}
  IN IF hits = {} THEN host
     ELSE LET i == CHOOSE j \in hits : \A k \in hits : j <= k
          IN SubSeq(host, 1, i - 1) \o SubSeq(host, i + 1, Len(host))

\* .replace(".co.", "."): the first label co that has a dot on both sides
StripCo(host) ==
  LET hits == {i \in 2..(Len(host) - 1) : host[i] = "co"}
  IN IF hits = {} THEN host
     ELSE LET i == CHOOSE j \in hits : \A k \in hits : j <= k
          IN SubSeq(host, 1, i - 1) \o SubSeq(host, i + 1, Len(host))

\* getProvider(host): ... .split(".").slice(0, -1).join(" ")
getProvider(host) ==
  LET h == StripCo(StripWww(host))
  IN Words(SubSeq(h, 1, Len(h) - 1))

----------------------------------------------------------------------------
(* Scores.  A score is a number or, from the icon scorer, a string of      *)
(* digits; the sizes attribute is null or a sequence of characters.        *)

DigitChars == {"0", "1", "2", "3", "4", "5", "6", "7", "8", "9"}

DigitVal(c) ==
  CASE c = "0" -> 0 [] c = "1" -> 1 [] c = "2" -> 2 [] c = "3" -> 3 [] c = "4" -> 4
    [] c = "5" -> 5 [] c = "6" -> 6 [] c = "7" -> 7 [] c = "8" -> 8 [] c = "9" -> 9

\* Number("16") == 16
RECURSIVE DecimalValue(_, _)
DecimalValue(s, acc) ==
  IF s = <<>> THEN acc ELSE DecimalValue(Tail(s), 10 * acc + DigitVal(Head(s)))

ToNumber(v) == IF v.t = "digits" THEN DecimalValue(v.s, 0) ELSE v.n

\* string comparison by code units
RECURSIVE LexGreater(_, _)
LexGreater(x, y) ==
  IF x = <<>> THEN FALSE
  ELSE IF y = <<>> THEN TRUE
  ELSE IF Head(x) # Head(y) THEN DigitVal(Head(x)) > DigitVal(Head(y))
  ELSE LexGreater(Tail(x), Tail(y))

\* a > b: two strings compare as strings, anything else as numbers
JsGreater(a, b) ==
  IF a.t = "digits" /\ b.t = "digits" THEN LexGreater(a.s, b.s)
  ELSE ToNumber(a) > ToNumber(b)

\* sizes.match(/\d+/g): the first run of digits, <<>> when there is none
RECURSIVE TakeDigits(_)
TakeDigits(s) ==
  IF s # <<>> /\ Head(s) \in DigitChars THEN <<Head(s)>> \o TakeDigits(Tail(s)) ELSE <<>>

RECURSIVE FirstDigits(_)
FirstDigits(s) ==
  IF s = <<>> THEN <<>>
  ELSE IF Head(s) \in DigitChars THEN TakeDigits(s) ELSE FirstDigits(Tail(s))

Chars(s) == [t |-> "chars", s |-> s]

\* the scorer of the icon rule-set
SizesScorer(element, score) ==
  IF element.sizes.t = "chars" /\ element.sizes.s # <<>>
  THEN LET sizeMatches == FirstDigits(element.sizes.s)
       IN IF sizeMatches # <<>> THEN Digits(sizeMatches) ELSE Undefined
  ELSE Undefined

----------------------------------------------------------------------------
(* The rule catalog.  A rule is [query, handler]; the handler names what   *)
(* it reads from a matched element.  An element of the document is         *)
(* [val, sizes]: val is what the handler of the rule that matched it reads *)
(* (an attribute: a string or null; or the text content), sizes is its     *)
(* sizes attribute.                                                        *)

Rule(query, handler) == [query |-> query, handler |-> handler]

metadataRuleSets ==
  [description |->
     [rules |-> <<Rule("meta[property=\"og:description\"]", "content"),
                  Rule("meta[name=\"description\" i]", "content")>>,
      scorers |-> <<>>, defaultValue |-> "none", processors |-> <<>>],
   icon |->
     [rules |-> <<Rule("link[rel=\"apple-touch-icon\"]", "href"),
                  Rule("link[rel=\"apple-touch-icon-precomposed\"]", "href"),
                  Rule("link[rel=\"icon\" i]", "href"),
                  Rule("link[rel=\"fluid-icon\"]", "href"),
                  Rule("link[rel=\"shortcut icon\"]", "href"),
                  Rule("link[rel=\"Shortcut Icon\"]", "href"),
                  Rule("link[rel=\"mask-icon\"]", "href")>>,
      scorers |-> <<"sizes">>, defaultValue |-> "favicon",
      processors |-> <<"makeUrlAbsolute">>],
   image |->
     [rules |-> <<Rule("meta[property=\"og:image:secure_url\"]", "content"),
                  Rule("meta[property=\"og:image:url\"]", "content"),
                  Rule("meta[property=\"og:image\"]", "content"),
                  Rule("meta[name=\"twitter:image\"]", "content"),
                  Rule("meta[property=\"twitter:image\"]", "content"),
                  Rule("meta[name=\"thumbnail\"]", "content")>>,
      scorers |-> <<>>, defaultValue |-> "none",
      processors |-> <<"makeUrlAbsolute">>],
   keywords |->
     [rules |-> <<Rule("meta[name=\"keywords\" i]", "content")>>,
      scorers |-> <<>>, defaultValue |-> "none", processors |-> <<"keywords">>],
   title |->
     [rules |-> <<Rule("meta[property=\"og:title\"]", "content"),
                  Rule("meta[name=\"twitter:title\"]", "content"),
                  Rule("meta[property=\"twitter:title\"]", "content"),
                  Rule("meta[name=\"hdl\"]", "content"),
                  Rule("title", "textContent")>>,
      scorers |-> <<>>, defaultValue |-> "none", processors |-> <<>>],
   language |->
     [rules |-> <<Rule("html[lang]", "lang"),
                  Rule("meta[name=\"language\" i]", "content")>>,
      scorers |-> <<>>, defaultValue |-> "none", processors |-> <<"language">>],
   type |->
     [rules |-> <<Rule("meta[property=\"og:type\"]", "content")>>,
      scorers |-> <<>>, defaultValue |-> "none", processors |-> <<>>],
   url |->
     [rules |-> <<Rule("a.amp-canurl", "href"),
                  Rule("link[rel=\"canonical\"]", "href"),
                  Rule("meta[property=\"og:url\"]", "content")>>,
      scorers |-> <<>>, defaultValue |-> "contextUrl",
      processors |-> <<"makeUrlAbsolute">>],
   provider |->
     [rules |-> <<Rule("meta[property=\"og:site_name\"]", "content")>>,
      scorers |-> <<>>, defaultValue |-> "provider", processors |-> <<>>],
   snippet |->
     [rules |-> <<Rule("article p", "textContent"),
                  Rule("main p", "textContent"),
                  Rule("#main p", "textContent"),
                  Rule("p", "textContent"),
                  Rule("main", "textContent"),
                  Rule(".post__content", "textContent"),
                  Rule(".post .content", "textContent"),
                  Rule("#pagebody .storycontent", "textContent")>>,
      scorers |-> <<>>, defaultValue |-> "none", processors |-> <<"snippet">>]]

\* Object.keys(metadataRuleSets), in the order the catalog is written
RuleSetKeys ==
  <<"description", "icon", "image", "keywords", "title", "language", "type",
    "url", "provider", "snippet">>

\* the length the snippet processor cuts at
SnippetLimit == 500

\* hrefAttribute, contentAttribute, textContent, getAttribute("lang")
Handler(handler, element) == element.val

\* scorer(element, score)
Scorer(scorer, element, score) ==
  IF scorer = "sizes" THEN SizesScorer(element, score) ELSE Undefined

\* the file name the icon rule-set falls back to
FaviconIco == UrlRef("rel", "", <<>>, <<"favicon.ico">>)

\* ruleSet.defaultValue(context): [ok |-> FALSE] when it throws
DefaultValue(ruleSet, ctx) ==
  CASE ruleSet.defaultValue = "contextUrl" -> [ok |-> TRUE, value |-> ctx.url]
    [] ruleSet.defaultValue = "favicon" -> [ok |-> TRUE, value |-> FaviconIco]
    [] ruleSet.defaultValue = "provider" ->
         LET host == parseUrl(ctx.url)
         IN IF host.ok THEN [ok |-> TRUE, value |-> getProvider(host.host)]
            ELSE [ok |-> FALSE, value |-> Undefined]

\* a variant that collapses the whitespace and does not cut the text
SnippetProcessorUncut(text) ==
  Text(CollapseWhitespace(IF Truthy(text) THEN text.runs ELSE <<>>))

\* the processor of the snippet rule-set
SnippetProcessor(text) ==
  Text(SliceRuns(CollapseWhitespace(IF Truthy(text) THEN text.runs ELSE <<>>),
                 SnippetLimit))

\* keywords.split(",").map((keyword) => keyword.trim())
KeywordsProcessor(keywords) ==
  LET pieces == SplitRuns(keywords.runs, ",")
  IN Array([i \in 1..Len(pieces) |-> Text(TrimRuns(pieces[i]))])

\* language.split("-")[0]
LanguageProcessor(language) == Text(SplitRuns(language.runs, "-")[1])

\* processor(maxValue, context): [ok |-> FALSE] when it throws
Processor(processor, value, ctx) ==
  CASE processor = "makeUrlAbsolute" ->
         LET r == makeUrlAbsolute(ctx.url, value)
         IN [ok |-> r.ok, value |-> r.url]
    [] processor = "snippet" -> [ok |-> TRUE, value |-> SnippetProcessor(value)]
    [] processor = "keywords" -> [ok |-> TRUE, value |-> KeywordsProcessor(value)]
    [] processor = "language" -> [ok |-> TRUE, value |-> LanguageProcessor(value)]

\* maxValue.trim(), for the values that have a trim method
Trim(value) == IF value.t = "text" THEN Text(TrimRuns(value.runs)) ELSE value

----------------------------------------------------------------------------
(* The rule-set evaluator.  matches is the sequence of [rule, el] the two  *)
(* loops of buildRuleSet visit: for each rule index (0-based) in order,    *)
(* the elements querySelectorAll returned for its query, in document order.*)

\* the scorers loop: the last truthy result replaces the score
RECURSIVE RunScorers(_, _, _)
RunScorers(scorers, element, score) ==
  IF scorers = <<>> THEN score
  ELSE LET newScore == Scorer(Head(scorers), element, score)
       IN RunScorers(Tail(scorers), element, IF Truthy(newScore) THEN newScore ELSE score)

\* the score of an element matched by the rule at index currRule
ElementScore(ruleSet, currRule, element) ==
  RunScorers(ruleSet.scorers, element, Number(Len(ruleSet.rules) - currRule))

\* a variant in which an equal score replaces the best so far (>= for >)
OutscoresOrTies(score, maxScore) == JsGreater(score, maxScore) \/ score = maxScore

\* score > maxScore
Outscores(score, maxScore) == JsGreater(score, maxScore)

RECURSIVE Scan(_, _, _, _)
Scan(ruleSet, matches, maxScore, maxValue) ==
  IF matches = <<>> THEN [maxScore |-> maxScore, maxValue |-> maxValue]
  ELSE LET m == Head(matches)
           score == ElementScore(ruleSet, m.rule, m.el)
       IN IF Outscores(score, maxScore)
          THEN Scan(ruleSet, Tail(matches), score,
                    Handler(ruleSet.rules[m.rule + 1].handler, m.el))
          ELSE Scan(ruleSet, Tail(matches), maxScore, maxValue)

\* the processors loop
RECURSIVE RunProcessors(_, _, _)
RunProcessors(processors, value, ctx) ==
  IF processors = <<>> THEN [ok |-> TRUE, value |-> value]
  ELSE LET r == Processor(Head(processors), value, ctx)
       IN IF r.ok THEN RunProcessors(Tail(processors), r.value, ctx) ELSE r

\* a variant that never falls back to the default
SelectValueWithoutDefault(ruleSet, maxValue, ctx) == [ok |-> TRUE, value |-> maxValue]

\* the value selected before processing: the best match, or else the default
SelectValue(ruleSet, maxValue, ctx) ==
  IF ~Truthy(maxValue) /\ ruleSet.defaultValue # "none"
  THEN DefaultValue(ruleSet, ctx)
  ELSE [ok |-> TRUE, value |-> maxValue]

\* the function buildRuleSet(ruleSet) returns, applied to the document's matches
\* and the context.  threw: an exception left it; value: what it returned;
\* maxScore, maxValue: the loop's result; selected: the value before processing
buildRuleSet(ruleSet, matches, ctx) ==
  LET best == Scan(ruleSet, matches, Number(0), Undefined)
      sel == SelectValue(ruleSet, best.maxValue, ctx)
      out == [threw |-> FALSE, value |-> Undefined, maxScore |-> best.maxScore,
              maxValue |-> best.maxValue, selected |-> sel.value]
  IN IF ~sel.ok THEN [out EXCEPT !.threw = TRUE]
     ELSE IF ~Truthy(sel.value) THEN out
     ELSE LET p == RunProcessors(ruleSet.processors, sel.value, ctx)
          IN IF p.ok THEN [out EXCEPT !.value = Trim(p.value)]
             ELSE [out EXCEPT !.threw = TRUE]

----------------------------------------------------------------------------
(* Inputs: page URLs, attribute values, texts, documents *)

PageA == UrlRef("abs", "https", <<"www", "example", "co", "uk">>, <<"a", "page">>)
PageB == UrlRef("abs", "http", <<"localhost">>, <<"x", "..", "">>)
\* a url parameter without a scheme, "example.com/page"
PageNoScheme == UrlRef("rel", "", <<>>, <<"example.com", "page">>)
PageUrls == {PageA, PageB, PageNoScheme}

RelImg == UrlRef("rel", "", <<>>, <<"..", "img.png">>)
RootImg == UrlRef("root", "", <<>>, <<"i", ".", "img.png">>)
AbsImg == UrlRef("abs", "https", <<"cdn", "example", "com">>, <<"img.png">>)
\* a reference the URL parser rejects, such as "http://"
BadRef == UrlRef("bad", "", <<>>, <<>>)

Word(c) == Text(<<[c |-> c, n |-> 3]>>)

UrlKeys == {"url", "icon", "image"}

\* what a handler can read from an element matched for key
AttrValues(key) ==
  IF key \in UrlKeys THEN {EmptyString, RelImg, AbsImg}
  ELSE IF key \in {"title", "snippet"} THEN {EmptyString, Word("a"), Word("b")}
  ELSE {Null, EmptyString, Word("a")}

BoundedSeq(S, n) == UNION {[1..k -> S] : k \in 0..n}

RulesOrdered(ms) == \A i \in 1..(Len(ms) - 1) : ms[i].rule <= ms[i + 1].rule

\* the match sequences of at most n elements with values vals and sizes from sz
MatchSeqs(key, vals, sz, n) ==
  {ms \in BoundedSeq([rule : 0..(Len(metadataRuleSets[key].rules) - 1),
                      el : [val : vals, sizes : sz]], n) : RulesOrdered(ms)}

NoDigitSizes(key) == IF key = "icon" THEN {Null, Chars(<<"a", "n", "y">>)} ELSE {Null}

InputDigits == {"1", "3", "9"}
DigitSeqs == UNION {[1..k -> InputDigits] : k \in 1..MaxDigits}
\* sizes="WxW"
DeclaredSizes == {Chars(d \o <<"x">> \o d) : d \in DigitSeqs}

RunLens == {1, 2, SnippetLimit - 1, SnippetLimit, SnippetLimit + 1}
TextChars == {"a", SP, NL, TAB}
RunSeqs ==
  {r \in BoundedSeq([c : TextChars, n : RunLens], MaxRuns) :
     \A i \in 1..(Len(r) - 1) : r[i].c # r[i + 1].c}

EmptyObject == [k \in {} |-> Undefined]
Put(obj, key, value) ==
  [k \in (DOMAIN obj) \cup {key} |-> IF k = key THEN value ELSE obj[k]]

NoCall == [key |-> "none", matches |-> <<>>]
NoRet == [threw |-> FALSE, value |-> Undefined, maxScore |-> Number(0),
          maxValue |-> Undefined, selected |-> Undefined]
NoRequest == [url |-> Null, browser |-> Null, excerpt |-> Null]
NoError == [from |-> "none", message |-> "none"]

----------------------------------------------------------------------------------------------------------------------------------------
(* Evaluating one built rule-set on a document and a context: the inputs   *)
(* are drawn in the initial state (pc = "call"), the evaluation is one     *)
(* step (pc = "returned").                                                 *)

InitCall(key, matches, url) ==
  /\ pc = "call" /\ request = NoRequest /\ apiKey = FALSE
  /\ context = [url |-> url] /\ keyIdx = 0 /\ metadata = EmptyObject
  /\ doc = EmptyObject /\ err = NoError /\ responses = <<>> /\ fetched = FALSE
  /\ call = [key |-> key, matches |-> matches] /\ ret = NoRet

\* builtRuleSet(doc, context)
Evaluate ==
  /\ pc = "call"
  /\ pc' = "returned"
  /\ ret' = buildRuleSet(metadataRuleSets[call.key], call.matches, context)
  /\ UNCHANGED <<request, apiKey, context, keyIdx, metadata, doc, err, responses,
                 fetched, call>>

\* any rule-set of the catalog, on elements whose sizes declare no number
InitEval ==
  \E key \in DOMAIN metadataRuleSets, url \in PageUrls :
    \E ms \in MatchSeqs(key, AttrValues(key), NoDigitSizes(key), MaxElems) :
      InitCall(key, ms, url)

SpecEval == InitEval /\ [][Evaluate]_vars

\* the icon rule-set, on elements with and without declared sizes
InitIcon ==
  \E ms \in MatchSeqs("icon", {EmptyString, RelImg, AbsImg},
                      {Null} \cup DeclaredSizes, MaxElems) :
    InitCall("icon", ms, PageA)

SpecIcon == InitIcon /\ [][Evaluate]_vars

\* the snippet rule-set, on one element with a text of a few runs
InitSnippet ==
  \E rule \in 0..(Len(metadataRuleSets.snippet.rules) - 1), runs \in RunSeqs :
    InitCall("snippet",
             <<[rule |-> rule, el |-> [val |-> Text(runs), sizes |-> Null]]>>, PageA)

SpecSnippet == InitSnippet /\ [][Evaluate]_vars

----------------------------------------------------------------------------
(* The HTTP shell of main.js and parse.  One fetch event is handled at a   *)
(* time: handlers of different events share only constants.  The document  *)
(* parse reads is given by what its selectors match, key by key.           *)

\* a variant that writes a member for every key
JsonStringifyEveryKey(data) == data

\* JSON.stringify(data, null, 2): members whose value is undefined are left out
JsonStringify(data) == [k \in {x \in DOMAIN data : data[x] # Undefined} |-> data[k]]

\* new Response(text, {status, headers: {"Content-Type": ...}})
Response(status, contentType, body) ==
  [status |-> status, contentType |-> contentType, body |-> body]

\* a variant that answers every error with status 500
errorAlways500(sent, status, text) == Append(sent, Response(500, "text/plain", text))

\* error(event, status, text): sent is what the event was answered with so far
error(sent, status, text) == Append(sent, Response(status, "text/plain", text))

\* json(event, data)
json(sent, data) ==
  Append(sent, Response(200, "application/json; charset=UTF-8", JsonStringify(data)))

UrlParams == {Null, EmptyString} \cup PageUrls
FlagParams == {Null, Word("1")}
ExcerptParams == {Null, Word("e")}

\* what the document of one parse call can give the selectors of key
ParseMatches(key) ==
  {<<>>} \cup
  {<<[rule |-> 0, el |-> [val |-> v, sizes |-> Null]]>> :
     v \in IF key \in UrlKeys THEN {RelImg, RootImg, BadRef} ELSE {Word("a")}}

Init ==
  /\ pc = "idle" /\ request = NoRequest /\ apiKey \in BOOLEAN
  /\ context = [url |-> Null] /\ keyIdx = 0 /\ metadata = EmptyObject
  /\ doc = EmptyObject /\ err = NoError /\ responses = <<>> /\ fetched = FALSE
  /\ call = NoCall /\ ret = NoRet

\* main.js 6-24: the listener runs up to its first await
HandleFetchEvent ==
  /\ pc \in {"idle", "done"}
  /\ \E url \in UrlParams, browser \in FlagParams, excerpt \in ExcerptParams :
       /\ request' = [url |-> url, browser |-> browser, excerpt |-> excerpt]
       /\ IF ~Truthy(url)
          THEN /\ responses' = error(<<>>, 400, "Missing 'url' parameter")
               /\ pc' = "done"
               /\ fetched' = FALSE
          ELSE /\ responses' = <<>>
               /\ pc' = IF Truthy(browser) /\ apiKey THEN "fetchWithBrowser" ELSE "fetch"
               /\ fetched' = TRUE
  /\ context' = [url |-> Null] /\ keyIdx' = 0 /\ metadata' = EmptyObject
  /\ doc' = EmptyObject /\ err' = NoError /\ call' = NoCall /\ ret' = NoRet
  /\ UNCHANGED apiKey

\* main.js 22-23: fetch(url) and res.text() resolve or reject; fetch rejects a
\* url that is not absolute
FetchPlain ==
  /\ pc = "fetch"
  /\ \/ /\ request.url.t = "url" /\ request.url.form = "abs"
        /\ pc' = "parse" /\ err' = err
     \/ /\ pc' = "caught"
        /\ err' = [from |-> "fetch", message |-> "fetch failed"]
  /\ UNCHANGED <<request, apiKey, context, keyIdx, metadata, doc, responses,
                 fetched, call, ret>>

\* main.js 39-52: the rendering service answers with content, or with a detail,
\* which is thrown; the fetch or res.json() may reject
fetchWithBrowser ==
  /\ pc = "fetchWithBrowser"
  /\ \/ pc' = "parse" /\ err' = err
     \/ pc' = "caught" /\ err' = [from |-> "fetch", message |-> "detail"]
     \/ pc' = "caught" /\ err' = [from |-> "fetch", message |-> "fetch failed"]
  /\ UNCHANGED <<request, apiKey, context, keyIdx, metadata, doc, responses,
                 fetched, call, ret>>

\* parse, lines 476-483: the document is parsed, metadata = {}, context = {url}
ParseBegin ==
  /\ pc = "parse"
  /\ pc' = "ruleSets"
  /\ context' = [url |-> request.url]
  /\ keyIdx' = 0 /\ metadata' = EmptyObject /\ doc' = EmptyObject
  /\ UNCHANGED <<request, apiKey, err, responses, fetched, call, ret>>

\* parse, lines 485-490: one turn of the loop over Object.keys(ruleSets); an
\* exception of the built rule-set leaves parse and reaches the handler's catch
EvalRuleSetKey ==
  /\ pc = "ruleSets" /\ keyIdx < Len(RuleSetKeys)
  /\ LET ruleSetKey == RuleSetKeys[keyIdx + 1]
     IN \E ms \in ParseMatches(ruleSetKey) :
          LET r == buildRuleSet(metadataRuleSets[ruleSetKey], ms, context)
          IN /\ call' = [key |-> ruleSetKey, matches |-> ms]
             /\ ret' = r
             /\ doc' = Put(doc, ruleSetKey, ms)
             /\ IF r.threw
                THEN /\ pc' = "caught"
                     /\ err' = [from |-> "parse", message |-> "Invalid URL"]
                     /\ UNCHANGED <<keyIdx, metadata>>
                ELSE /\ metadata' = Put(metadata, ruleSetKey, r.value)
                     /\ keyIdx' = keyIdx + 1
                     /\ UNCHANGED <<pc, err>>
  /\ UNCHANGED <<request, apiKey, context, responses, fetched>>

\* parse returns metadata; main.js 26-32: the excerpt replaces the snippet and
\* the document is sent
RespondJson ==
  /\ pc = "ruleSets" /\ keyIdx = Len(RuleSetKeys)
  /\ LET d == IF Truthy(request.excerpt) THEN Put(metadata, "snippet", request.excerpt)
              ELSE metadata
     IN /\ metadata' = d
        /\ responses' = json(responses, d)
  /\ pc' = "done"
  /\ UNCHANGED <<request, apiKey, context, keyIdx, doc, err, fetched, call, ret>>

\* main.js 33-36: the catch
RespondError ==
  /\ pc = "caught"
  /\ responses' = error(responses, 500, err.message)
  /\ pc' = "done"
  /\ UNCHANGED <<request, apiKey, context, keyIdx, metadata, doc, err, fetched,
                 call, ret>>

Next ==
  \/ HandleFetchEvent
  \/ FetchPlain
  \/ fetchWithBrowser
  \/ ParseBegin
  \/ EvalRuleSetKey
  \/ RespondJson
  \/ RespondError

Spec == Init /\ [][Next]_vars

----------------------------------------------------------------------------
(* Properties of the rule-set evaluator *)

Matches == call.matches
RuleSet == metadataRuleSets[call.key]
RuleCount == Len(RuleSet.rules)

HasDeclaredSize(el) == el.sizes.t = "chars" /\ FirstDigits(el.sizes.s) # <<>>
DeclaredSize(el) == DecimalValue(FirstDigits(el.sizes.s), 0)

\* the number an element's score stands for
ScoreValue(m) == IF HasDeclaredSize(m.el) THEN DeclaredSize(m.el) ELSE RuleCount - m.rule

\* the first element, in visiting order, whose score is numerically the largest
IsBest(k) ==
  /\ \A j \in 1..Len(Matches) : ScoreValue(Matches[j]) <= ScoreValue(Matches[k])
  /\ \A j \in 1..(k - 1) : ScoreValue(Matches[j]) < ScoreValue(Matches[k])

\* C1: in the icon rule-set, when the elements matched by one rule all carry an
\* href and declare a size, the href the evaluator selects is that of the element whose first
\* declared size number is numerically the largest, in either document order.
C1_LargestDeclaredSizeWins ==
  (/\ pc = "returned" /\ call.key = "icon" /\ Len(Matches) >= 2
   /\ \A i \in 1..Len(Matches) :
        /\ HasDeclaredSize(Matches[i].el) /\ Truthy(Matches[i].el.val)
        /\ Matches[i].rule = Matches[1].rule)
  => \A k \in 1..Len(Matches) :
       (\A j \in 1..Len(Matches) :
          j # k => DeclaredSize(Matches[j].el) < DeclaredSize(Matches[k].el))
       => ret.maxValue = Matches[k].el.val

\* C2: with N rules and no scorer override, an element matched by the rule at
\* index i scores N - i, ties never overwrite, and the winning raw value is the
\* handler's value of the first matched element of the lowest-index rule that
\* matches.
C2_RuleOrderDecides ==
  (/\ pc = "returned" /\ Matches # <<>>
   /\ \A i \in 1..Len(Matches) : ~HasDeclaredSize(Matches[i].el))
  => /\ \A i \in 1..Len(Matches) :
          ElementScore(RuleSet, Matches[i].rule, Matches[i].el)
            = Number(RuleCount - Matches[i].rule)
     /\ ret.maxScore = Number(RuleCount - Matches[1].rule)
     /\ ret.maxValue = Matches[1].el.val

\* two elements of the last rule with different values: the first one won, with
\* score 1
C2_Witness ==
  /\ pc = "returned" /\ call.key = "snippet" /\ Len(Matches) = 2
  /\ Matches[1].rule = RuleCount - 1 /\ Matches[2].rule = RuleCount - 1
  /\ Matches[1].el.val # Matches[2].el.val /\ Truthy(Matches[2].el.val)
  /\ ret.maxScore = Number(1) /\ ret.maxValue = Matches[1].el.val

ExpectedContextHref ==
  IF context.url = PageA THEN PageA
  ELSE UrlRef("abs", "http", <<"localhost">>, <<"">>)
ExpectedFavicon ==
  IF context.url = PageA
  THEN UrlRef("abs", "https", <<"www", "example", "co", "uk">>, <<"a", "favicon.ico">>)
  ELSE UrlRef("abs", "http", <<"localhost">>, <<"favicon.ico">>)
ContextIsAbsolute == context.url.t = "url" /\ context.url.form = "abs"

\* C3 as stated: when no rule matches, the field equals defaultValue(context) if
\* the rule-set has a defaultValue, and is absent if it has none.
C3_FieldEqualsDefault ==
  (pc = "returned" /\ Matches = <<>> /\ ~ret.threw)
  => IF RuleSet.defaultValue # "none"
     THEN ret.value = DefaultValue(RuleSet, context).value
     ELSE ret.value = Undefined

\* C3, amended: when no rule matches, a rule-set without defaultValue gives an
\* absent field; one with a defaultValue gives defaultValue(context) passed
\* through its processors and trimmed (url: the context url normalised; icon:
\* favicon.ico resolved against the context url; provider: the host-derived
\* name), absent when defaultValue(context) is the empty string; and the
\* evaluation throws when the context url is not an absolute URL.
C3_DefaultIsProcessed ==
  (pc = "returned" /\ Matches = <<>>)
  => CASE RuleSet.defaultValue = "none" -> ~ret.threw /\ ret.value = Undefined
       [] ~ContextIsAbsolute -> ret.threw
       [] call.key = "url" -> ~ret.threw /\ ret.value = ExpectedContextHref
       [] call.key = "icon" -> ~ret.threw /\ ret.value = ExpectedFavicon
       [] call.key = "provider" ->
            /\ ~ret.threw
            /\ ret.value = IF context.url = PageA THEN Words(<<"example">>)
                           ELSE Undefined

\* no rule of the icon rule-set matched and the field is favicon.ico made
\* absolute
C3_Witness ==
  /\ pc = "returned" /\ call.key = "icon" /\ Matches = <<>>
  /\ ret.value = ExpectedFavicon /\ ret.selected = FaviconIco

RawText == Matches[1].el.val.runs

NoLongWhitespaceRun(runs) ==
  /\ \A i \in 1..Len(runs) : runs[i].c # NL /\ (runs[i].c = SP => runs[i].n = 1)
  /\ \A i \in 1..(Len(runs) - 1) : runs[i].c # runs[i + 1].c

C9_EmptyBestIsKept ==
  (pc = "returned" /\ Matches # <<>>)
  => \A k \in 1..Len(Matches) :
       (IsBest(k) /\ ~Truthy(Matches[k].el.val))
       => /\ ret.maxValue = Matches[k].el.val
          /\ IF RuleSet.defaultValue # "none"
             THEN ret.selected = DefaultValue(RuleSet, context).value
             ELSE ret.value = Undefined

\* C10: a truthy scorer result is the element's score whatever the index of the
\* rule that matched it, a falsy one leaves ruleCount - index, and so an element
\* of a lower-priority rule whose override is larger than the score of an
\* element of a higher-priority rule outranks it.
C10_OverrideDecides ==
  (pc = "returned" /\ call.key = "icon")
  => /\ \A i \in 1..Len(Matches) :
          ElementScore(RuleSet, Matches[i].rule, Matches[i].el)
            = IF HasDeclaredSize(Matches[i].el)
              THEN Digits(FirstDigits(Matches[i].el.sizes.s))
              ELSE Number(RuleCount - Matches[i].rule)
     /\ (/\ Len(Matches) = 2
         /\ Matches[1].rule < Matches[2].rule
         /\ HasDeclaredSize(Matches[2].el)
         /\ Truthy(Matches[1].el.val) /\ Truthy(Matches[2].el.val)
         /\ ScoreValue(Matches[2]) > ScoreValue(Matches[1]))
        => ret.maxValue = Matches[2].el.val

----------------------------------------------------------------------------
(* Properties of parse and of the HTTP shell *)

\* parse has returned: every key was evaluated and none threw
ParseReturned == pc \in {"ruleSets", "done"} /\ keyIdx = Len(RuleSetKeys)
AllKeys == {RuleSetKeys[i] : i \in 1..Len(RuleSetKeys)}
Answered200 == pc = "done" /\ responses # <<>> /\ responses[1].status = 200
NothingProduced(key) ==
  doc[key] = <<>> /\ metadataRuleSets[key].defaultValue = "none"

\* C4 as stated: a field whose selectors match nothing and whose rule-set has no
\* default has no entry in the mapping parse returns.
C4_NoEntryInMapping ==
  ParseReturned
  => \A key \in AllKeys :
       (NothingProduced(key) /\ ~(key = "snippet" /\ pc = "done"))
       => key \notin DOMAIN metadata

\* C4, amended: the mapping parse returns has an entry for every catalog field,
\* with the value undefined for a field whose selectors match nothing and whose
\* rule-set has no default; it is the JSON body the shell sends that has no
\* entry for such a field: its keys are exactly the fields that have a value.
C4_UndefinedEntryLeftOutOfJson ==
  /\ ParseReturned
     => /\ DOMAIN metadata = AllKeys
        /\ \A key \in AllKeys :
             (NothingProduced(key) /\ ~(key = "snippet" /\ pc = "done"))
             => metadata[key] = Undefined
  /\ Answered200
     => /\ DOMAIN responses[1].body = {key \in AllKeys : metadata[key] # Undefined}
        /\ \A key \in AllKeys :
             (NothingProduced(key) /\ ~(key = "snippet" /\ Truthy(request.excerpt)))
             => key \notin DOMAIN responses[1].body

\* a document without og:type was answered: type is a key of the mapping and
\* not of the JSON body, which has the title
C4_Witness ==
  /\ Answered200 /\ doc["type"] = <<>> /\ doc["title"] # <<>>
  /\ "type" \in DOMAIN metadata /\ "type" \notin DOMAIN responses[1].body
  /\ "title" \in DOMAIN responses[1].body

\* C5: when the evaluation of one field throws, parse goes on: the field is
\* absent and the other fields are still evaluated and returned.
C5_FieldFaultIsIsolated ==
  ret.threw => /\ pc \in {"ruleSets", "done"}
               /\ err.from # "parse"
               /\ call.key \in DOMAIN metadata /\ metadata[call.key] = Undefined

NoDotSegments(path) == \A i \in 1..Len(path) : path[i] \notin {".", ".."}
IsAbsoluteUrl(v) ==
  /\ v.t = "url" /\ v.form = "abs" /\ v.scheme \in {"http", "https"}
  /\ v.host # <<>> /\ NoDotSegments(v.path)

\* C7: after a parse call that returns, each of url, icon and image that is
\* present is an absolute URL, the selected value resolved against the context
\* url: a relative path of a matched element and the default alike land on the
\* context's scheme and host.
C7_UrlFieldsAbsolute ==
  ParseReturned
  => \A key \in UrlKeys :
       metadata[key] # Undefined
       => /\ IsAbsoluteUrl(metadata[key])
          /\ metadata[key].scheme = context.url.scheme
          /\ metadata[key].host = context.url.host
          /\ IF doc[key] = <<>>
             THEN metadata[key] = IF key = "url" THEN ExpectedContextHref
                                  ELSE ExpectedFavicon
             ELSE metadata[key].path =
                    IF doc[key][1].el.val = RelImg THEN <<"img.png">>
                    ELSE <<"i", "img.png">>

\* parse returned with an image given as a relative path and the icon taken
\* from the default, both absolute
C7_Witness ==
  /\ ParseReturned /\ doc["image"] # <<>> /\ doc["image"][1].el.val = RelImg
  /\ doc["icon"] = <<>>
  /\ metadata["image"].form = "abs" /\ metadata["icon"] = ExpectedFavicon

\* "missing": the handler's own test, !url, true of an absent and of an empty
\* url parameter
UrlMissing == request.url = Null \/ request.url = EmptyString

\* C8: every request gets exactly one response: 400, with no fetch and no parse,
\* when the url parameter is missing; otherwise 500 with the error's message as
\* plain text when fetching or parsing raised an error, and 200 with the
\* serialized metadata when not.
C8_OneResponsePerRequest ==
  /\ Len(responses) <= 1
  /\ pc \notin {"idle", "done"} => responses = <<>>
  /\ pc = "done"
     => /\ Len(responses) = 1
        /\ IF UrlMissing
           THEN /\ responses[1].status = 400
                /\ ~fetched /\ call = NoCall /\ doc = EmptyObject
           ELSE IF err.from # "none"
           THEN responses[1] = Response(500, "text/plain", err.message)
           ELSE /\ responses[1].status = 200
                /\ responses[1].contentType = "application/json; charset=UTF-8"
                /\ ParseReturned
                /\ responses[1].body = JsonStringify(metadata)

\* a request whose parse threw was answered once, with 500 and the message
C8_Witness ==
  /\ pc = "done" /\ err.from = "parse" /\ Len(responses) = 1
  /\ responses[1].status = 500 /\ responses[1].body = "Invalid URL"

====
